---- MODULE Spec2Model ----
(***************************************************************************)
(* Model of convert_scion_topology.py: the conversion of a generated SCION *)
(* topology tree into a Kathara lab.  Strings that the program parses are  *)
(* sequences of one-character strings; an optional value (Python's None)   *)
(* is a sequence of length at most one.                                    *)
(***************************************************************************)
EXTENDS Integers, Sequences, FiniteSets, TLC

VARIABLES
  port_allocator,  \* the PortAllocator instance shared by one run
  first_ret,       \* allocator specification: arguments seen -> port first returned
  topology_json,   \* rewritten topology.json of each node rewritten so far
  rewritten,       \* node numbers whose topology.json has been rewritten
  link_trace,      \* per rewritten node, the get_port call of each interface
  call,            \* the last rewriter call: its input, locals and outcome
  pc,              \* where main is: "start", "loop", "emit", "done", "failed", "crashed"
  listing,         \* source_base.iterdir(): the entries in the order found
  as_to_node,      \* main's as_to_node: <<as_name, node_name>> in dict order
  idx,             \* how many items of as_to_node the loop has processed
  node_dirs,       \* the output tree: node_name -> files and the sources written
  lab_conf         \* the node names of lab.conf, in the order written

mainVars == <<pc, listing, as_to_node, idx, node_dirs, lab_conf>>

vars == <<port_allocator, first_ret, topology_json, rewritten, link_trace, call,
          pc, listing, as_to_node, idx, node_dirs, lab_conf>>

\* main is not part of the specification at hand
NoMain ==
  /\ pc = "off" /\ listing = <<>> /\ as_to_node = <<>>
  /\ idx = 0 /\ node_dirs = <<>> /\ lab_conf = <<>>

(* ---------------------------------------------------------------- bounds *)
\* most new ports the allocator hands out in the allocator specification
MaxPorts == 3
\* largest link_index passed to get_port in the allocator specification
MaxLinkIndex == 1
\* most interfaces in one input topology.json
MaxIf == 2
\* most border_routers entries in one input topology.json
MaxBR == 2
\* most entries of the source directory
MaxDirs == 3

(* --------------------------------------------------------------- helpers *)
None == <<>>
Some(v) == <<v>>

min(a, b) == IF a <= b THEN a ELSE b
max(a, b) == IF a >= b THEN a ELSE b

(* ------------------------------------------------------ text and parsing *)
Digits == {"0", "1", "2", "3", "4", "5", "6", "7", "8", "9"}

DigitVal(c) ==
  CASE c = "0" -> 0 [] c = "1" -> 1 [] c = "2" -> 2 [] c = "3" -> 3
    [] c = "4" -> 4 [] c = "5" -> 5 [] c = "6" -> 6 [] c = "7" -> 7
    [] c = "8" -> 8 [] c = "9" -> 9

\* int(s) for a non-empty string of decimal digits
RECURSIVE int(_)
int(s) ==
  IF s = <<>> THEN 0
  ELSE int(SubSeq(s, 1, Len(s) - 1)) * 10 + DigitVal(s[Len(s)])

\* length of the longest suffix of s made of digits
RECURSIVE TrailingDigits(_)
TrailingDigits(s) ==
  IF s = <<>> \/ s[Len(s)] \notin Digits THEN 0
  ELSE 1 + TrailingDigits(SubSeq(s, 1, Len(s) - 1))

\* re.search(sep + r'(\d+)$', s) followed by int(match.group(1)): '$' matches at
\* the end of the string and also just before a newline that ends the string
re_search_number(sep, s) ==
  LET t == IF s # <<>> /\ s[Len(s)] = "\n" THEN SubSeq(s, 1, Len(s) - 1) ELSE s
      n == TrailingDigits(t)
  IN IF n > 0 /\ Len(t) > n /\ t[Len(t) - n] = sep
     THEN Some(int(SubSeq(t, Len(t) - n + 1, Len(t))))
     ELSE None

DigitChar(d) ==
  CASE d = 0 -> "0" [] d = 1 -> "1" [] d = 2 -> "2" [] d = 3 -> "3"
    [] d = 4 -> "4" [] d = 5 -> "5" [] d = 6 -> "6" [] d = 7 -> "7"
    [] d = 8 -> "8" [] d = 9 -> "9"

\* str(n) of a natural number, as in f"as_{as_num}"
RECURSIVE str(_)
str(n) == IF n < 10 THEN <<DigitChar(n)>>
          ELSE str(n \div 10) \o <<DigitChar(n % 10)>>

extract_as_number(as_name) == re_search_number("_", as_name)

\* a parse that answers AS 0 where the pattern does not match
extract_node_or_zero(isd_as) ==
  IF re_search_number(":", isd_as) = None THEN Some(0)
  ELSE re_search_number(":", isd_as)

extract_node_from_isd_as(isd_as) == re_search_number(":", isd_as)

\* a mapping that keeps only two digits of the node number
node_to_ip_two_digits(node_number) == node_number % 100

node_to_ip(node_number) == node_number

\* the string f'10.0.0.{ip}:{port}' as its ':'-separated fields
Addr(ip, port) == <<(<<10, 0, 0, ip>>), port>>

(* ------------------------------------------------- NodeMapping builder   *)
\* the characters of the names at hand, in code point order
Alphabet == <<"0", "1", "2", "3", "4", "5", "6", "7", "8", "9",
              "A", "D", "I", "S", "_", "a", "f", "s">>

Ord(c) == CHOOSE i \in DOMAIN Alphabet : Alphabet[i] = c

\* s < t for Python strings
RECURSIVE StrLess(_, _)
StrLess(s, t) ==
  IF t = <<>> THEN FALSE
  ELSE IF s = <<>> THEN TRUE
  ELSE IF s[1] # t[1] THEN Ord(s[1]) < Ord(t[1])
  ELSE StrLess(Tail(s), Tail(t))

\* p < q for Python tuples (number, string)
TupleLess(p, q) == p[1] < q[1] \/ (p[1] = q[1] /\ StrLess(p[2], q[2]))

RECURSIVE Insert(_, _)
Insert(sorted, p) ==
  IF sorted = <<>> THEN <<p>>
  ELSE IF TupleLess(p, sorted[1]) THEN <<p>> \o sorted
  ELSE <<sorted[1]>> \o Insert(Tail(sorted), p)

\* a list left in the order it was built in
unsorted(list) == list

\* list.sort() of a list of (number, string) tuples
RECURSIVE sort(_)
sort(list) == IF list = <<>> THEN <<>> ELSE Insert(sort(Tail(list)), list[1])

\* d.name.startswith('AS')
StartsWithAS(name) == Len(name) >= 2 /\ name[1] = "A" /\ name[2] = "S"

\* the list as_dirs_with_numbers before it is sorted
RECURSIVE dirs_with_numbers(_)
dirs_with_numbers(entries) ==
  IF entries = <<>> THEN <<>>
  ELSE (IF /\ entries[1].is_dir
           /\ StartsWithAS(entries[1].name)
           /\ extract_as_number(entries[1].name) # None
        THEN << <<extract_as_number(entries[1].name)[1], entries[1].name>> >>
        ELSE <<>>)
       \o dirs_with_numbers(Tail(entries))

\* f"as_{as_num}"
NodeName(as_num) == <<"a", "s", "_">> \o str(as_num)

\* build_as_to_node_mapping(source_base), where source_base.iterdir() yields
\* `entries`: the dict as_name -> node_name in insertion order
build_as_to_node_mapping(entries) ==
  LET as_dirs_with_numbers == sort(dirs_with_numbers(entries)) IN
  [i \in DOMAIN as_dirs_with_numbers |->
     <<as_dirs_with_numbers[i][2], NodeName(as_dirs_with_numbers[i][1])>>]

\* int(node_name.replace('as_', '')) for a node name 'as_' + digits
NodeNumberOf(node_name) == int(SubSeq(node_name, 4, Len(node_name)))

(* ------------------------------------------------------- PortAllocator   *)
\* PortAllocator.__init__, called by main with base_port=50000
base_port == 50000

PortAllocator ==
  [base_port |-> base_port, next_port |-> base_port, port_assignments |-> <<>>]

\* a key that keeps the order of the arguments
LinkKeyAsGiven(node_a, node_b, link_index) == <<node_a, node_b, link_index>>

\* the canonical key of get_port
LinkKey(node_a, node_b, link_index) ==
  <<min(node_a, node_b), max(node_a, node_b), link_index>>

\* a counter that stays where it is
SamePort(next_port) == next_port

\* self.next_port += 1
IncrementPort(next_port) == next_port + 1

\* PortAllocator.get_port: the returned port and the allocator afterwards
get_port(self, node_a, node_b, link_index) ==
  LET key == LinkKey(node_a, node_b, link_index) IN
  IF key \in DOMAIN self.port_assignments
  THEN [port |-> self.port_assignments[key], self |-> self]
  ELSE [port |-> self.next_port,
        self |-> [self EXCEPT
                    !.port_assignments =
                       [k \in DOMAIN self.port_assignments \cup {key} |->
                          IF k = key THEN self.next_port
                          ELSE self.port_assignments[k]],
                    !.next_port = IncrementPort(self.next_port)]]

(* ------------------------------------------------- update_topology_json  *)
\* A Python dict that is iterated is a sequence of <<key, value>> pairs in
\* insertion order.  A JSON string 'host:port' is the sequence of its fields
\* between colons; JSON null is the empty sequence.
null == <<>>

HasKey(d, k) == \E i \in DOMAIN d : d[i][1] = k

\* d[k] = v: a new key is appended, an old key keeps its place
Put(d, k, v) ==
  IF HasKey(d, k)
  THEN [i \in DOMAIN d |-> IF d[i][1] = k THEN <<k, v>> ELSE d[i]]
  ELSE Append(d, <<k, v>>)

\* addr.split(':')[1] raises IndexError when addr has no colon (and a null addr
\* has no split at all)
SplitRaises(addr) == Len(addr) < 2

\* the loops over control_service and discovery_service
ServicesRaise(table) ==
  /\ table # None
  /\ \E i \in DOMAIN table[1] :
        /\ table[1][i][2].addr # None
        /\ SplitRaises(table[1][i][2].addr[1])

update_services(table, node_number) ==
  IF table = None THEN None
  ELSE Some([i \in DOMAIN table[1] |->
               LET service_data == table[1][i][2] IN
               <<table[1][i][1],
                 IF service_data.addr = None THEN service_data
                 ELSE [service_data EXCEPT
                         !.addr = Some(Addr(node_to_ip(node_number),
                                            service_data.addr[1][2]))]>>])

\* the loop over topology['border_routers']: the interfaces of all border
\* routers in one dict, and the internal_addr of the last one that has one
\* a merge that keeps only the interfaces of the border router at hand
replace_interfaces(all_interfaces, interfaces) == interfaces

RECURSIVE merge_interfaces(_, _)
merge_interfaces(all_interfaces, interfaces) ==
  IF interfaces = <<>> THEN all_interfaces
  ELSE merge_interfaces(Put(all_interfaces, interfaces[1][1], interfaces[1][2]),
                        Tail(interfaces))

RECURSIVE collect_border_routers(_, _, _)
collect_border_routers(border_routers, node_number, acc) ==
  IF border_routers = <<>> \/ acc.raised THEN acc
  ELSE LET br_data == border_routers[1][2] IN
       IF br_data.internal_addr # None /\ SplitRaises(br_data.internal_addr[1])
       THEN [acc EXCEPT !.raised = TRUE]
       ELSE collect_border_routers(
              Tail(border_routers), node_number,
              [acc EXCEPT
                 !.consolidated_internal_addr =
                    IF br_data.internal_addr = None THEN @
                    ELSE Addr(node_to_ip(node_number), br_data.internal_addr[1][2]),
                 !.all_interfaces =
                    IF br_data.interfaces = None THEN @
                    ELSE merge_interfaces(@, br_data.interfaces[1])])

\* a rewrite that gives the remote address the local host
rewrite_underlay_local_host(underlay, node_number, remote_node, connection_port) ==
  [local  |-> IF underlay.local = None THEN None
              ELSE Some(Addr(node_to_ip(node_number), connection_port)),
   remote |-> IF underlay.remote = None THEN None
              ELSE Some(Addr(node_to_ip(node_number), connection_port))]

\* the assignments to underlay['local'] and underlay['remote']
rewrite_underlay(underlay, node_number, remote_node, connection_port) ==
  [local  |-> IF underlay.local = None THEN None
              ELSE Some(Addr(node_to_ip(node_number), connection_port)),
   remote |-> IF underlay.remote = None THEN None
              ELSE Some(Addr(node_to_ip(remote_node), connection_port))]

\* a counter that is stored without the increment
StoreCounter(link_counters, node_pair, link_index) ==
  [p \in DOMAIN link_counters \cup {node_pair} |->
     IF p = node_pair THEN link_index ELSE link_counters[p]]

\* link_counters[node_pair] = link_index + 1
IncrementCounter(link_counters, node_pair, link_index) ==
  [p \in DOMAIN link_counters \cup {node_pair} |->
     IF p = node_pair THEN link_index + 1 ELSE link_counters[p]]

\* link_counters.get(node_pair, 0)
CounterGet(link_counters, node_pair) ==
  IF node_pair \in DOMAIN link_counters THEN link_counters[node_pair] ELSE 0

\* one iteration of the loop over all_interfaces.  acc.trace records, for the
\* interface at each position, the locals remote_node, link_index and
\* connection_port of its iteration (None when it allocates nothing).
process_interface(acc, i, node_number) ==
  LET interface_data == acc.all_interfaces[i][2]
      remote_node ==
        IF interface_data.underlay # None /\ interface_data.isd_as # None
        THEN extract_node_from_isd_as(interface_data.isd_as[1])
        ELSE None
  IN
  IF interface_data.underlay = None \/ remote_node = None
  THEN [acc EXCEPT !.trace = Append(@, None)]
  ELSE
    LET node_pair == <<min(node_number, remote_node[1]),
                       max(node_number, remote_node[1])>>
        link_index == CounterGet(acc.link_counters, node_pair)
        r == get_port(acc.port_allocator, node_number, remote_node[1], link_index)
    IN [acc EXCEPT
          !.link_counters = IncrementCounter(@, node_pair, link_index),
          !.port_allocator = r.self,
          !.all_interfaces[i][2].underlay =
             Some(rewrite_underlay(interface_data.underlay[1], node_number,
                                   remote_node[1], r.port)),
          !.trace = Append(@, Some([remote_node |-> remote_node[1],
                                    link_index |-> link_index,
                                    connection_port |-> r.port]))]

RECURSIVE process_interfaces(_, _, _)
process_interfaces(acc, i, node_number) ==
  IF i > Len(acc.all_interfaces) THEN acc
  ELSE process_interfaces(process_interface(acc, i, node_number), i + 1, node_number)

\* the key 'br' of the consolidated border router
BrId == <<"b", "r">>

\* update_topology_json(file_path, node_number, port_allocator) on a file that
\* holds `topology`.  raised: an exception left the function before it wrote
\* the file.  collected, link_counters and trace are the function's locals.
update_topology_json(topology, node_number, allocator) ==
  LET unchanged == [raised |-> TRUE, topology |-> topology,
                    port_allocator |-> allocator, collected |-> <<>>,
                    link_counters |-> <<>>, trace |-> <<>>]
      t1 == [topology EXCEPT
               !.sections = @ \ {"test_dispatcher"},
               !.control_service = update_services(@, node_number),
               !.discovery_service = update_services(@, node_number)]
  IN
  IF ServicesRaise(topology.control_service)
     \/ ServicesRaise(topology.discovery_service)
  THEN unchanged
  ELSE IF topology.border_routers = None
  THEN [raised |-> FALSE, topology |-> t1, port_allocator |-> allocator,
        collected |-> <<>>, link_counters |-> <<>>, trace |-> <<>>]
  ELSE
    LET c == collect_border_routers(
               topology.border_routers[1], node_number,
               [raised |-> FALSE, consolidated_internal_addr |-> null,
                all_interfaces |-> <<>>])
        done == process_interfaces(
                  [all_interfaces |-> c.all_interfaces, link_counters |-> <<>>,
                   port_allocator |-> allocator, trace |-> <<>>],
                  1, node_number)
    IN
    IF c.raised THEN unchanged
    ELSE [raised |-> FALSE,
          topology |->
            [t1 EXCEPT !.border_routers =
               Some(<< <<BrId, [internal_addr |-> Some(c.consolidated_internal_addr),
                                interfaces |-> Some(done.all_interfaces)]>> >>)],
          port_allocator |-> done.port_allocator,
          collected |-> c.all_interfaces,
          link_counters |-> done.link_counters,
          trace |-> done.trace]

(* ------------------------------------------------------ ConfigRewriter   *)
\* A parsed TOML file is a function from its section names to the sections,
\* and a section a function from its keys to their values.
Del(config, section) == [x \in DOMAIN config \ {section} |-> config[x]]

\* config[section][key] = value, where the section exists
SetIn(config, section, key, value) ==
  IF section \in DOMAIN config
  THEN [config EXCEPT ![section] =
          [k \in DOMAIN config[section] \cup {key} |->
             IF k = key THEN value ELSE config[section][k]]]
  ELSE config

BrApiPort == 31442
CsApiPort == 31152
SdPort == 30255
SdApiPort == 30955

update_br_toml(config, node_number) ==
  LET c1 == Del(config, "metrics")
      c2 == SetIn(SetIn(c1, "general", "config_dir", "/etc/scion/"),
                  "general", "id", "br")
  IN SetIn(c2, "api", "addr", Addr(node_to_ip(node_number), BrApiPort))

update_cs_toml(config, node_number) ==
  LET c1 == Del(Del(config, "metrics"), "tracing")
      c2 == SetIn(c1, "general", "config_dir", "/etc/scion/")
      c3 == SetIn(SetIn(SetIn(c2, "trust_db", "connection", "/etc/scion/trust.db"),
                        "beacon_db", "connection", "/etc/scion/beacon.db"),
                  "path_db", "connection", "/etc/scion/path.db")
  IN SetIn(c3, "api", "addr", Addr(node_to_ip(node_number), CsApiPort))

update_sd_toml(config, node_number) ==
  LET c1 == Del(Del(config, "metrics"), "tracing")
      c2 == SetIn(c1, "general", "config_dir", "/etc/scion/")
      c3 == SetIn(SetIn(c2, "trust_db", "connection", "/etc/scion/trust.db"),
                  "path_db", "connection", "/etc/scion/path.db")
      c4 == SetIn(c3, "sd", "address", Addr(node_to_ip(node_number), SdPort))
  IN SetIn(c4, "api", "addr", Addr(node_to_ip(node_number), SdApiPort))

(* ------------------------------------- specification of the allocator    *)
\* the NodeIds of the nodes of a run
NodeNumbers == {110, 111}

InitAlloc ==
  /\ port_allocator = PortAllocator
  /\ first_ret = <<>>
  /\ topology_json = <<>>
  /\ rewritten = {}
  /\ link_trace = <<>>
  /\ call = [fn |-> "none"]
  /\ NoMain

\* one call get_port(a, b, i) by any caller
GetPortCall(a, b, i) ==
  LET r == get_port(port_allocator, a, b, i) IN
  /\ r.self.next_port <= base_port + MaxPorts
  /\ port_allocator' = r.self
  /\ first_ret' = IF <<a, b, i>> \in DOMAIN first_ret THEN first_ret
                  ELSE [c \in DOMAIN first_ret \cup {<<a, b, i>>} |->
                          IF c = <<a, b, i>> THEN r.port ELSE first_ret[c]]
  /\ UNCHANGED <<topology_json, rewritten, link_trace, call, mainVars>>

NextAlloc ==
  \E a \in NodeNumbers, b \in NodeNumbers, i \in 0..MaxLinkIndex :
     GetPortCall(a, b, i)

SpecAlloc == InitAlloc /\ [][NextAlloc]_vars

(* ------------------------------------------------------ input documents  *)
\* '1-ff00:0:<n>', the peer identifier the generator writes for AS n
IsdAs(n) == <<"1", "-", "f", "f", "0", "0", ":", "0", ":">> \o str(n)
\* a peer identifier whose AS part is not decimal
BadIsdAs == <<"1", "-", "f", "f", "0", "0", ":", "0", ":", "1", "1", "a">>

OrigLocal == <<(<<127, 0, 0, 4>>), 31012>>
OrigRemote == <<(<<127, 0, 0, 5>>), 31013>>
FullUnderlay == [local |-> Some(OrigLocal), remote |-> Some(OrigRemote)]
RemoteOnly == [local |-> None, remote |-> Some(OrigRemote)]

InterfaceData ==
  {[underlay |-> Some(FullUnderlay), isd_as |-> p] :
     p \in {None, Some(BadIsdAs)} \cup {Some(IsdAs(m)) : m \in NodeNumbers}}
  \cup {[underlay |-> None, isd_as |-> Some(IsdAs(110))]}
  \cup {[underlay |-> Some(RemoteOnly), isd_as |-> Some(IsdAs(m))] : m \in NodeNumbers}

SeqsUpTo(S, n) == UNION {[1..k -> S] : k \in 0..n}

BrName(k) == <<"b", "r", "-">> \o str(k)

\* border_routers with nb entries holding the interfaces L, the j-th in entry
\* f[j].  shape: "plain" numbers the interfaces 1, 2, ... across the entries;
\* "collide" numbers them from 1 in each entry; "partial" leaves the last
\* entry without internal_addr and an entry without interfaces without the
\* key; "bad" gives the first entry an internal_addr without a colon.
BorderRouters(L, f, nb, shape) ==
  [k \in 1..nb |->
     LET pos == {j \in 1..Len(L) : f[j] = k}
         lo == CHOOSE j \in pos : \A j2 \in pos : j <= j2
     IN <<BrName(k),
          [internal_addr |->
             IF shape = "partial" /\ k = nb THEN None
             ELSE IF shape = "bad" /\ k = 1 THEN Some(<<(<<127, 0, 0, 9>>)>>)
             ELSE Some(<<(<<127, 0, 0, 9>>), 31000 + k>>),
           interfaces |->
             IF pos = {} THEN (IF shape = "partial" THEN None ELSE Some(<<>>))
             ELSE Some([j \in 1..Cardinality(pos) |->
                          <<IF shape = "collide" THEN j ELSE lo + j - 1,
                            L[lo + j - 1]>>])]>>]

Shapes == {"plain", "collide", "partial", "bad"}

\* the ways to place n interfaces, in order, into at most MaxBR entries
Placements(n) ==
  {f \in [1..n -> 1..MaxBR] : \A j \in 1..(n - 1) : f[j] <= f[j + 1]}

BorderRouterTables(V, shapes) ==
  UNION {UNION {{BorderRouters(L, f, nb, shape) :
                   nb \in {k \in 0..MaxBR : \A j \in 1..Len(L) : f[j] <= k},
                   shape \in shapes} :
                f \in Placements(Len(L))} :
         L \in SeqsUpTo(V, MaxIf)}

OkAddr == <<(<<127, 0, 0, 7>>), 31002>>
NoColonAddr == <<(<<127, 0, 0, 7>>)>>

ServiceTables ==
  {None,
   Some(<< <<"cs-1", [addr |-> Some(OkAddr)]>> >>),
   Some(<< <<"cs-1", [addr |-> None]>> >>),
   Some(<< <<"cs-1", [addr |-> Some(OkAddr)]>>, <<"cs-2", [addr |-> Some(NoColonAddr)]>> >>)}

\* topology.json as parsed: `sections` is the set of its top-level keys other
\* than the three tables
Topology(sections, control_service, discovery_service, border_routers) ==
  [sections |-> sections, control_service |-> control_service,
   discovery_service |-> discovery_service, border_routers |-> border_routers]

\* all interfaces in one border router, numbered 1, 2, ...
OneBorderRouter(L) == BorderRouters(L, [j \in 1..Len(L) |-> 1], 1, "plain")

\* the interfaces placed in several border routers
LinkInterfaceData ==
  {[underlay |-> Some(FullUnderlay), isd_as |-> p] :
     p \in {Some(BadIsdAs), Some(IsdAs(111))}}

DefaultServices == Some(<< <<"cs-1", [addr |-> Some(OkAddr)]>> >>)

\* input documents of the rewriter specification: every kind of interface in
\* one border router, fewer kinds spread over several border routers, and the
\* other top-level tables
RewriteTopologies ==
  {Topology({"test_dispatcher", "isd_as"}, DefaultServices, None,
            Some(OneBorderRouter(L))) : L \in SeqsUpTo(InterfaceData, MaxIf)}
  \cup {Topology({"test_dispatcher", "isd_as"}, DefaultServices, None, Some(b)) :
          b \in BorderRouterTables(LinkInterfaceData, Shapes)}
  \cup {Topology(sec, cs, ds, br) :
          sec \in SUBSET {"test_dispatcher", "mtu"},
          cs \in ServiceTables,
          ds \in {None, Some(<< <<"ds-1", [addr |-> Some(OkAddr)]>> >>)},
          br \in {None, Some(<<>>)}}

\* the ports that the generated service configurations listen on
InputPorts == {31442, 30255, 30442}

Section(name, port) ==
  CASE name = "general" -> [id |-> "gen-id", config_dir |-> "gen/ASff00_0_110"]
    [] name = "api" -> [addr |-> <<(<<127, 0, 0, 12>>), port>>]
    [] name = "sd" -> [address |-> <<(<<127, 0, 0, 12>>), port>>]
    [] name \in {"trust_db", "beacon_db", "path_db"} -> [connection |-> "gen-cache/x.db"]
    [] OTHER -> [enabled |-> "true"]

\* parsed TOML files with the sections `names`, listening on `port`
Configs(names, dbs) ==
  {[x \in (n \cup d) |-> Section(x, port)] :
     n \in SUBSET names, d \in {{}, dbs}, port \in InputPorts}

BrConfigs == Configs({"metrics", "tracing", "general", "api"}, {})
CsConfigs == Configs({"metrics", "tracing", "general", "api"},
                     {"trust_db", "beacon_db", "path_db"})
SdConfigs == Configs({"metrics", "tracing", "general", "api", "sd"},
                     {"trust_db", "path_db"})

(* ----------------------------------- specification of the file rewriters *)
InitRewrite ==
  /\ port_allocator = PortAllocator
  /\ first_ret = <<>>
  /\ topology_json = <<>>
  /\ rewritten = {}
  /\ link_trace = <<>>
  /\ call = [fn |-> "none"]
  /\ NoMain

\* main's call update_topology_json(node_dir / "topology.json", node_number,
\* port_allocator) for a node not yet processed
CallUpdateTopology(node_number, topology) ==
  LET r == update_topology_json(topology, node_number, port_allocator) IN
  /\ call.fn = "none"
  /\ node_number \notin rewritten
  /\ port_allocator' = r.port_allocator
  /\ rewritten' = rewritten \cup {node_number}
  /\ call' = [fn |-> "update_topology_json", node_number |-> node_number,
              input |-> topology, before |-> port_allocator,
              raised |-> r.raised, output |-> r.topology,
              collected |-> r.collected, link_counters |-> r.link_counters,
              trace |-> r.trace]
  /\ UNCHANGED <<first_ret, topology_json, link_trace, mainVars>>

\* main's calls update_br_toml, update_cs_toml and update_sd_toml on the copy
\* of a node's configuration file
CallUpdateToml(fn, node_number, config) ==
  /\ call.fn = "none"
  /\ call' = [fn |-> fn, node_number |-> node_number, input |-> config,
              output |-> CASE fn = "update_br_toml" -> update_br_toml(config, node_number)
                           [] fn = "update_cs_toml" -> update_cs_toml(config, node_number)
                           [] fn = "update_sd_toml" -> update_sd_toml(config, node_number)]
  /\ UNCHANGED <<port_allocator, first_ret, topology_json, rewritten, link_trace, mainVars>>

\* the call returns to main, and its locals are gone
Return ==
  /\ call.fn # "none"
  /\ call' = [fn |-> "none"]
  /\ UNCHANGED <<port_allocator, first_ret, topology_json, rewritten, link_trace, mainVars>>

NextRewrite ==
  \/ \E n \in NodeNumbers, topology \in RewriteTopologies :
        CallUpdateTopology(n, topology)
  \/ \E n \in NodeNumbers, config \in BrConfigs :
        CallUpdateToml("update_br_toml", n, config)
  \/ \E n \in NodeNumbers, config \in CsConfigs :
        CallUpdateToml("update_cs_toml", n, config)
  \/ \E n \in NodeNumbers, config \in SdConfigs :
        CallUpdateToml("update_sd_toml", n, config)
  \/ Return

SpecRewrite == InitRewrite /\ [][NextRewrite]_vars

(* --------------------- specification of a run over all topology files    *)
RunInterfaceData ==
  {[underlay |-> Some(FullUnderlay), isd_as |-> p] :
     p \in {Some(BadIsdAs)} \cup {Some(IsdAs(m)) : m \in NodeNumbers}}
  \cup {[underlay |-> Some(RemoteOnly), isd_as |-> Some(IsdAs(m))] : m \in NodeNumbers}

\* input documents of the run specification
RunTopologies ==
  {Topology({"test_dispatcher", "isd_as"}, DefaultServices, None,
            Some(OneBorderRouter(L))) : L \in SeqsUpTo(RunInterfaceData, MaxIf)}

InitRun ==
  /\ port_allocator = PortAllocator
  /\ first_ret = <<>>
  /\ topology_json = <<>>
  /\ rewritten = {}
  /\ link_trace = <<>>
  /\ call = [fn |-> "none"]
  /\ NoMain

\* one iteration of main's loop as far as topology.json goes: the file of a
\* node not yet processed is rewritten with the shared allocator.  The nodes
\* come in any order.
RewriteNode(node_number, topology) ==
  LET r == update_topology_json(topology, node_number, port_allocator) IN
  /\ node_number \notin rewritten
  /\ ~r.raised
  /\ port_allocator' = r.port_allocator
  /\ rewritten' = rewritten \cup {node_number}
  /\ topology_json' = [n \in rewritten \cup {node_number} |->
                         IF n = node_number THEN r.topology ELSE topology_json[n]]
  /\ link_trace' = [n \in rewritten \cup {node_number} |->
                      IF n = node_number THEN r.trace ELSE link_trace[n]]
  /\ UNCHANGED <<first_ret, call, mainVars>>

NextRun ==
  \E n \in NodeNumbers, topology \in RunTopologies : RewriteNode(n, topology)

SpecRun == InitRun /\ [][NextRun]_vars

(* ------------------------------------------------ specification of main  *)
\* names found in input_scion/gen
ASff00_0_110 == <<"A", "S", "f", "f", "0", "0", "_", "0", "_", "1", "1", "0">>
ASff00_0_111 == <<"A", "S", "f", "f", "0", "0", "_", "0", "_", "1", "1", "1">>
ASff00_0_112 == <<"A", "S", "f", "f", "0", "0", "_", "0", "_", "1", "1", "2">>
ASff00_1_110 == <<"A", "S", "f", "f", "0", "0", "_", "1", "_", "1", "1", "0">>
ASff00_0_11a == <<"A", "S", "f", "f", "0", "0", "_", "0", "_", "1", "1", "a">>
ISD1 == <<"I", "S", "D", "1">>
AS_7 == <<"A", "S", "_", "7">>

SourceEntries ==
  {[name |-> n, is_dir |-> TRUE] :
     n \in {ASff00_0_110, ASff00_0_111, ASff00_0_112, ASff00_1_110,
            ASff00_0_11a, ISD1}}
  \cup {[name |-> AS_7, is_dir |-> FALSE]}

\* what iterdir() can yield: entries with distinct names, in any order
Listings ==
  {l \in SeqsUpTo(SourceEntries, MaxDirs) :
     \A i, j \in DOMAIN l : l[i] = l[j] => i = j}

FullConfig(names) == [x \in names |-> Section(x, 30442)]

\* what one source directory holds: each file or None
SourceDirs ==
  {[br |-> Some(FullConfig({"metrics", "tracing", "general", "api"})),
    cs |-> Some(FullConfig({"metrics", "tracing", "general", "api", "path_db"})),
    sd |-> Some(FullConfig({"metrics", "tracing", "general", "api", "sd"})),
    topology |->
      Some(Topology({"test_dispatcher"}, DefaultServices, None,
                    Some(OneBorderRouter(
                      << [underlay |-> Some(FullUnderlay), isd_as |-> Some(IsdAs(110))],
                         [underlay |-> Some(FullUnderlay), isd_as |-> Some(IsdAs(111))] >>))))],
   [br |-> None, cs |-> None, sd |-> None,
    topology |->
      Some(Topology({}, None, None,
                    Some(OneBorderRouter(
                      << [underlay |-> Some(FullUnderlay), isd_as |-> Some(IsdAs(112))] >>))))],
   [br |-> None, cs |-> None, sd |-> None,
    topology |->
      Some(Topology({}, None, None,
                    Some(<< <<BrName(1), [internal_addr |-> Some(NoColonAddr),
                                          interfaces |-> None]>> >>)))],
   [br |-> None, cs |-> None, sd |-> None, topology |-> None]}

InitMain ==
  /\ pc = "start"
  /\ listing \in {None} \cup {Some(l) : l \in Listings}
  /\ as_to_node = <<>>
  /\ idx = 0
  /\ node_dirs = <<>>
  /\ lab_conf = <<>>
  /\ port_allocator = PortAllocator
  /\ first_ret = <<>>
  /\ topology_json = <<>>
  /\ rewritten = {}
  /\ link_trace = <<>>
  /\ call = [fn |-> "none"]

\* main up to the loop: the source check, the mapping, the shared allocator
BuildMapping ==
  /\ pc = "start"
  /\ IF listing = None
     THEN /\ pc' = "failed"
          /\ UNCHANGED as_to_node
     ELSE /\ as_to_node' = build_as_to_node_mapping(listing[1])
          /\ pc' = IF as_to_node' = <<>> THEN "failed" ELSE "loop"
  /\ port_allocator' = PortAllocator
  /\ UNCHANGED <<first_ret, topology_json, rewritten, link_trace, call,
                 listing, idx, node_dirs, lab_conf>>

EmptyNodeDir == [br |-> None, cs |-> None, sd |-> None, topology |-> None,
                 sources |-> <<>>]

\* one iteration of the loop over as_to_node.items(), on a source directory
\* that holds `source`: the files are copied into the node directory and
\* rewritten there, topology.json last
ProcessAs(source) ==
  /\ pc = "loop"
  /\ idx < Len(as_to_node)
  /\ LET as_name == as_to_node[idx + 1][1]
         node_name == as_to_node[idx + 1][2]
         node_number == NodeNumberOf(node_name)
         old == IF node_name \in DOMAIN node_dirs THEN node_dirs[node_name]
                ELSE EmptyNodeDir
         r == update_topology_json(source.topology[1], node_number, port_allocator)
         new == [br |-> IF source.br = None THEN old.br
                        ELSE Some(update_br_toml(source.br[1], node_number)),
                 cs |-> IF source.cs = None THEN old.cs
                        ELSE Some(update_cs_toml(source.cs[1], node_number)),
                 sd |-> IF source.sd = None THEN old.sd
                        ELSE Some(update_sd_toml(source.sd[1], node_number)),
                 topology |-> IF source.topology = None THEN old.topology
                              ELSE Some(r.topology),
                 sources |-> Append(old.sources, as_name)]
     IN /\ node_dirs' = [n \in DOMAIN node_dirs \cup {node_name} |->
                           IF n = node_name THEN new ELSE node_dirs[n]]
        /\ port_allocator' = IF source.topology = None THEN port_allocator
                             ELSE r.port_allocator
        /\ pc' = IF source.topology # None /\ r.raised THEN "crashed" ELSE "loop"
  /\ idx' = idx + 1
  /\ UNCHANGED <<first_ret, topology_json, rewritten, link_trace, call,
                 listing, as_to_node, lab_conf>>

\* generate_kathara_configs(dest_base, as_to_node): the nodes of lab.conf
GenerateKatharaConfigs ==
  /\ pc = "loop"
  /\ idx = Len(as_to_node)
  /\ LET sorted_nodes ==
           sort([i \in DOMAIN as_to_node |->
                   <<extract_as_number(as_to_node[i][1])[1], as_to_node[i][2]>>])
     IN lab_conf' = [i \in DOMAIN sorted_nodes |-> sorted_nodes[i][2]]
  /\ pc' = "done"
  /\ UNCHANGED <<port_allocator, first_ret, topology_json, rewritten, link_trace,
                 call, listing, as_to_node, idx, node_dirs>>

Next ==
  \/ BuildMapping
  \/ \E source \in SourceDirs : ProcessAs(source)
  \/ GenerateKatharaConfigs

Spec == InitMain /\ [][Next]_vars

(* ------------------------------------------ properties of the rewriters  *)
\* the last call rewrote a topology.json that has a border_routers table
Consolidated ==
  /\ call.fn = "update_topology_json"
  /\ ~call.raised
  /\ call.input.border_routers # None

\* the interfaces of the one border router of a rewritten document
BrInterfaces(topology) == topology.border_routers[1][1][2].interfaces[1]

\* the NodeId that a peer identifier ends in, if it ends in one
PeerNumber(isd_as) == re_search_number(":", isd_as)

\* the interface has an underlay and a peer identifier that parses
Resolves(interface_data) ==
  /\ interface_data.underlay # None
  /\ interface_data.isd_as # None
  /\ PeerNumber(interface_data.isd_as[1]) # None

PeerOf(interface_data) == PeerNumber(interface_data.isd_as[1])[1]

\* how many interfaces toward the same peer are declared before position i
Ordinal(interfaces, i) ==
  Cardinality({j \in 1..(i - 1) :
                 /\ Resolves(interfaces[j][2])
                 /\ PeerOf(interfaces[j][2]) = PeerOf(interfaces[i][2])})

\* C4: within one rewrite, the interfaces toward one peer get the link
\* ordinals 0, 1, ... in the order of the consolidated map, and pairwise
\* distinct ports
C4_ParallelLinks ==
  Consolidated =>
    LET ifs == BrInterfaces(call.output) IN
    \A i \in DOMAIN ifs :
      Resolves(ifs[i][2]) =>
        /\ call.trace[i] # None
        /\ call.trace[i][1].remote_node = PeerOf(ifs[i][2])
        /\ call.trace[i][1].link_index = Ordinal(ifs, i)
        /\ \A j \in DOMAIN ifs :
             (/\ j # i
              /\ Resolves(ifs[j][2])
              /\ PeerOf(ifs[j][2]) = PeerOf(ifs[i][2]))
             => /\ call.trace[j] # None
                /\ call.trace[j][1].connection_port
                     # call.trace[i][1].connection_port

\* two parallel links of a node whose peer has already been allocated ports
C4_Witness ==
  /\ Consolidated
  /\ call.before.next_port > base_port
  /\ Len(call.trace) = 2
  /\ call.trace[1] # None /\ call.trace[2] # None
  /\ call.trace[1][1].remote_node = call.trace[2][1].remote_node
  /\ call.trace[1][1].remote_node # call.node_number
  /\ call.trace[1][1].link_index = 0 /\ call.trace[2][1].link_index = 1

\* the interface ids of the entries of a border_routers table, entry by entry
RECURSIVE InputIds(_)
InputIds(border_routers) ==
  IF border_routers = <<>> THEN <<>>
  ELSE (IF border_routers[1][2].interfaces = None THEN <<>>
        ELSE [j \in DOMAIN border_routers[1][2].interfaces[1] |->
                border_routers[1][2].interfaces[1][j][1]])
       \o InputIds(Tail(border_routers))

NoIdCollision(ids) == \A i, j \in DOMAIN ids : ids[i] = ids[j] => i = j

\* C5: the rewritten document has exactly one border router, named 'br';
\* without id collisions its interfaces are as many as the original entries
\* had together, each original id once
C5_OneBorderRouter ==
  Consolidated =>
    LET out == call.output.border_routers[1]
        ids == InputIds(call.input.border_routers[1])
    IN /\ Len(out) = 1
       /\ out[1][1] = BrId
       /\ out[1][2].interfaces # None
       /\ NoIdCollision(ids) =>
            /\ Len(out[1][2].interfaces[1]) = Len(ids)
            /\ \A k \in DOMAIN ids :
                 Cardinality({j \in DOMAIN out[1][2].interfaces[1] :
                                out[1][2].interfaces[1][j][1] = ids[k]}) = 1

\* two original border routers with an interface each, under distinct ids
C5_Witness ==
  /\ Consolidated
  /\ Len(call.input.border_routers[1]) = 2
  /\ call.input.border_routers[1][1][2].interfaces # None
  /\ call.input.border_routers[1][2][2].interfaces # None
  /\ Len(call.input.border_routers[1][1][2].interfaces[1]) = 1
  /\ Len(call.input.border_routers[1][2][2].interfaces[1]) = 1
  /\ NoIdCollision(InputIds(call.input.border_routers[1]))
  /\ Len(BrInterfaces(call.output)) = 2

\* some address of the document has no colon
NoColon(table) ==
  /\ table # None
  /\ \E i \in DOMAIN table[1] :
       table[1][i][2].addr # None /\ Len(table[1][i][2].addr[1]) < 2

HasBadAddress(topology) ==
  \/ NoColon(topology.control_service)
  \/ NoColon(topology.discovery_service)
  \/ /\ topology.border_routers # None
     /\ \E k \in DOMAIN topology.border_routers[1] :
          /\ topology.border_routers[1][k][2].internal_addr # None
          /\ Len(topology.border_routers[1][k][2].internal_addr[1]) < 2

\* the interface has no peer identifier, or one that yields no NodeId
NoPeer(interface_data) ==
  \/ interface_data.isd_as = None
  \/ PeerNumber(interface_data.isd_as[1]) = None

Allocating(trace) == {i \in DOMAIN trace : trace[i] # None}

RECURSIVE SumCounters(_, _)
SumCounters(link_counters, pairs) ==
  IF pairs = {} THEN 0
  ELSE LET p == CHOOSE q \in pairs : TRUE
       IN link_counters[p] + SumCounters(link_counters, pairs \ {p})

\* C10: an interface without a usable peer identifier does not abort the
\* rewrite; it stays in 'br' as it was, takes no link ordinal and no port,
\* and the other interfaces are rewritten
C10_UnparsedPeerKept ==
  /\ (call.fn = "update_topology_json" /\ call.raised)
       => HasBadAddress(call.input)
  /\ Consolidated =>
       LET ifs == BrInterfaces(call.output)
           keys == {LinkKey(call.node_number, call.trace[i][1].remote_node,
                            call.trace[i][1].link_index) :
                      i \in Allocating(call.trace)}
       IN
       /\ Len(ifs) = Len(call.collected)
       /\ Len(call.trace) = Len(call.collected)
       /\ \A i \in DOMAIN call.collected :
            LET before == call.collected[i][2] IN
            /\ NoPeer(before) => /\ ifs[i] = call.collected[i]
                                 /\ call.trace[i] = None
            /\ (~NoPeer(before) /\ before.underlay # None) =>
                 /\ call.trace[i] # None
                 /\ ifs[i][2].underlay[1].local =
                      (IF before.underlay[1].local = None THEN None
                       ELSE Some(Addr(call.node_number,
                                      call.trace[i][1].connection_port)))
                 /\ ifs[i][2].underlay[1].remote =
                      (IF before.underlay[1].remote = None THEN None
                       ELSE Some(Addr(call.trace[i][1].remote_node,
                                      call.trace[i][1].connection_port)))
       /\ SumCounters(call.link_counters, DOMAIN call.link_counters)
            = Cardinality(Allocating(call.trace))
       /\ DOMAIN port_allocator.port_assignments
            = DOMAIN call.before.port_assignments \cup keys
       /\ port_allocator.next_port - call.before.next_port
            = Cardinality(keys \ DOMAIN call.before.port_assignments)

\* an interface with a malformed peer identifier declared before one that is
\* rewritten with the first ordinal
C10_Witness ==
  /\ Consolidated
  /\ Len(call.collected) = 2
  /\ call.collected[1][2].underlay # None
  /\ call.collected[1][2].isd_as = Some(BadIsdAs)
  /\ call.trace[2] # None
  /\ call.trace[2][1].link_index = 0
  /\ call.trace[2][1].connection_port > base_port

(* ------------------------------------------- properties of the allocator *)
\* C2: get_port(a, b, i) and get_port(b, a, i) return the same port; a call
\* with arguments seen before returns the port returned the first time and
\* leaves next_port and port_assignments as they are
C2_GetPortIdempotent ==
  /\ \A c \in DOMAIN first_ret :
       LET again == get_port(port_allocator, c[1], c[2], c[3])
           swapped == get_port(port_allocator, c[2], c[1], c[3])
       IN /\ again.port = first_ret[c]
          /\ swapped.port = first_ret[c]
          /\ again.self = port_allocator
          /\ swapped.self = port_allocator
  /\ \A a \in NodeNumbers, b \in NodeNumbers, i \in 0..MaxLinkIndex :
       LET one == get_port(port_allocator, a, b, i)
           other == get_port(one.self, b, a, i)
       IN other.port = one.port /\ other.self = one.self

\* a link asked for from both ends, the second end after another allocation
C2_Witness ==
  /\ <<110, 111, 1>> \in DOMAIN first_ret
  /\ <<111, 110, 1>> \in DOMAIN first_ret
  /\ first_ret[<<110, 111, 1>>] = base_port
  /\ port_allocator.next_port >= base_port + 2

C3_Invariant ==
  LET pa == port_allocator.port_assignments IN
  /\ \A k \in DOMAIN pa :
       /\ k[1] <= k[2]
       /\ pa[k] >= base_port
       /\ pa[k] < port_allocator.next_port
  /\ \A k1, k2 \in DOMAIN pa : k1 # k2 => pa[k1] # pa[k2]

\* C3: two distinct canonical keys never hold the same port, every assigned
\* port is at least the base port 50000 and below next_port, and next_port
\* never decreases
C3_PortsUnique ==
  /\ []C3_Invariant
  /\ [][port_allocator'.next_port >= port_allocator.next_port]_vars

\* three keys hold ports, two of them links between the same pair of nodes
C3_Witness ==
  /\ Cardinality(DOMAIN port_allocator.port_assignments) = 3
  /\ <<110, 111, 0>> \in DOMAIN port_allocator.port_assignments
  /\ <<110, 111, 1>> \in DOMAIN port_allocator.port_assignments
  /\ <<111, 110, 0>> \in DOMAIN first_ret

(* ------------------------------------------------- properties of a run   *)
\* the position of node a's k-th interface toward node b (k from 0), in the
\* order of a's consolidated interface map; 0 if there is none
LinkPosition(a, b, k) ==
  LET ifs == BrInterfaces(topology_json[a])
      at == {i \in DOMAIN ifs :
               /\ Resolves(ifs[i][2])
               /\ PeerOf(ifs[i][2]) = b
               /\ Ordinal(ifs, i) = k}
  IN IF at = {} THEN 0 ELSE CHOOSE i \in at : TRUE

\* both ends of the k-th link between a and b exist
LinkedPairs ==
  {x \in rewritten \X rewritten \X (0..MaxIf) :
     /\ x[1] # x[2]
     /\ LinkPosition(x[1], x[2], x[3]) # 0
     /\ LinkPosition(x[2], x[1], x[3]) # 0}

TomlCall == call.fn \in {"update_br_toml", "update_cs_toml", "update_sd_toml"}

RemovedSections == {"metrics", "tracing", "test_dispatcher"}

\* C6: a rewritten file has no metrics, tracing or test_dispatcher section,
\* whichever of them its input had
C6_RemovedSectionsAbsent ==
  /\ TomlCall => DOMAIN call.output \cap RemovedSections = {}
  /\ (call.fn = "update_topology_json" /\ ~call.raised)
       => call.output.sections \cap RemovedSections = {}

\* the keys that hold a service's own address, with the port the rewriter
\* writes there
OwnAddresses(fn) ==
  CASE fn = "update_br_toml" -> {<<"api", "addr", BrApiPort>>}
    [] fn = "update_cs_toml" -> {<<"api", "addr", CsApiPort>>}
    [] fn = "update_sd_toml" -> {<<"sd", "address", SdPort>>,
                                 <<"api", "addr", SdApiPort>>}

\* C7 as stated: the own address in the output has the node's host octet and
\* the port it had in the input
C7_AsStated ==
  TomlCall =>
    \A a \in OwnAddresses(call.fn) :
      a[1] \in DOMAIN call.input =>
        call.output[a[1]][a[2]]
          = <<(<<10, 0, 0, call.node_number>>), call.input[a[1]][a[2]][2]>>

\* C7, amended: the own address in the output has the node's host octet and
\* the port fixed for that key of that file (31442, 31152, 30255, 30955),
\* whatever port the input had; a section the input lacks is not created
C7_FixedPorts ==
  TomlCall =>
    \A a \in OwnAddresses(call.fn) :
      IF a[1] \in DOMAIN call.input
      THEN call.output[a[1]][a[2]] = <<(<<10, 0, 0, call.node_number>>), a[3]>>
      ELSE a[1] \notin DOMAIN call.output

\* sd.toml of node 111 listening on another port than the ones written
C7_Witness ==
  /\ call.fn = "update_sd_toml"
  /\ call.node_number = 111
  /\ {"sd", "api"} \subseteq DOMAIN call.input
  /\ call.input["api"]["addr"][2] = 30442
  /\ call.output["api"]["addr"] = <<(<<10, 0, 0, 111>>), 30955>>
  /\ call.output["sd"]["address"] = <<(<<10, 0, 0, 111>>), 30255>>

(* --------------------------------------------------- properties of main  *)
\* C8: no two source directories of the mapping have the same NodeId or the
\* same node name, and no node directory is written from two sources
C8_UniqueNodeIds ==
  pc = "done" =>
  /\ \A i, j \in DOMAIN as_to_node :
       i # j => /\ as_to_node[i][2] # as_to_node[j][2]
                /\ extract_as_number(as_to_node[i][1])
                     # extract_as_number(as_to_node[j][1])
  /\ \A n \in DOMAIN node_dirs : Len(node_dirs[n].sources) <= 1

Reorderings(l) ==
  {[i \in DOMAIN l |-> l[f[i]]] :
     f \in {g \in [DOMAIN l -> DOMAIN l] : \A i, j \in DOMAIN l : g[i] = g[j] => i = j}}

RECURSIVE Flatten(_, _)
Flatten(dirs, names) ==
  IF names = {} THEN {}
  ELSE LET n == CHOOSE x \in names : TRUE
       IN {dirs[n].sources[i] : i \in DOMAIN dirs[n].sources}
          \cup Flatten(dirs, names \ {n})

\* C9: the mapping is ascending in NodeId, is the same for every order in
\* which the source directories are found, and main processes the nodes in
\* the order of the mapping
C9_MappingSorted ==
  (pc \notin {"start", "off"} /\ listing # None) =>
    /\ \A i, j \in DOMAIN as_to_node :
         i < j => NodeNumberOf(as_to_node[i][2]) <= NodeNumberOf(as_to_node[j][2])
    /\ \A l \in Reorderings(listing[1]) : build_as_to_node_mapping(l) = as_to_node
    /\ Flatten(node_dirs, DOMAIN node_dirs) = {as_to_node[i][1] : i \in 1..idx}
    /\ \A n \in DOMAIN node_dirs : \A i \in DOMAIN node_dirs[n].sources :
         \E k \in 1..idx : as_to_node[k] = <<node_dirs[n].sources[i], n>>

\* the directories 110, 112, 111 found in this order and mapped 110, 111, 112
C9_Witness ==
  /\ pc = "done"
  /\ listing = Some(<<[name |-> ASff00_0_110, is_dir |-> TRUE],
                      [name |-> ASff00_0_112, is_dir |-> TRUE],
                      [name |-> ASff00_0_111, is_dir |-> TRUE]>>)
  /\ as_to_node = << <<ASff00_0_110, NodeName(110)>>,
                     <<ASff00_0_111, NodeName(111)>>,
                     <<ASff00_0_112, NodeName(112)>> >>
  /\ lab_conf = <<NodeName(110), NodeName(111), NodeName(112)>>
====
